---- MODULE Spec2Model ----
(***************************************************************************)
(* Voice session client of robot_client.py: one main coroutine, a          *)
(* capture-and-send task and a receive task that share the asyncio.Event   *)
(* `stop`, one WebSocket channel and one audio output device.              *)
(***************************************************************************)
EXTENDS Integers, Sequences, FiniteSets, TLC

\* ---------------------------------------------------------------- constants
sample_rate == 48000
record_seconds == 5
frame_size == sample_rate \div 50
\* one frame of frame_size samples lasts this many milliseconds
FrameMs == (frame_size * 1000) \div sample_rate
RecordMs == record_seconds * 1000

\* ------------------------------------------------------------------- bounds
\* messages the server sends after the handshake reply, in one run
MaxMsgs == 2
\* messages in flight towards the client at one time
MaxInbox == 2
\* time one capture iteration takes (read, yield, whatever ran meanwhile)
SlowMs == 2000
\* length of the binary payloads of the handler specification
MaxPayloadLen == 4

\* --------------------------------------------------------------------- data
NoField == "<absent>"
NoFile == <<"", "">>
NoFormat == "<none>"

\* byte values: I D 3 O g S, 0xFF, 0xE0, 0xDF
ByteI == 73
ByteD == 68
Byte3 == 51
ByteO == 79
Byteg == 103
ByteS == 83
Bytes == {ByteI, ByteD, Byte3, ByteO, Byteg, ByteS, 255, 224, 223}
ID3 == <<ByteI, ByteD, Byte3>>
OggS == <<ByteO, Byteg, Byteg, ByteS>>

Formats == {"opus", "OPUS", "mp3", "Mp3", "wav"}

\* "audio_format" of the hello the client sends
RequestedFormat == "mp3"

\* str.lower() on the strings of the model
Lower(s) ==
  CASE s = "OPUS" -> "opus"
    [] s = "Mp3" -> "mp3"
    [] s = "MP3" -> "mp3"
    [] s = "WAV" -> "wav"
    [] OTHER -> s

BinMsg(d) ==
  [wire |-> "bin", data |-> d, shape |-> "bytes", type |-> NoField, audio_format |-> NoField]
\* a textual message: shape is "invalid" (not JSON), "nonrecord" (JSON that
\* is no object) or "record"; type and audio_format are its fields
TextMsg(sh, ty, af) ==
  [wire |-> "text", data |-> <<>>, shape |-> sh, type |-> ty, audio_format |-> af]
NoMsg ==
  [wire |-> "none", data |-> <<>>, shape |-> "none", type |-> NoField, audio_format |-> NoField]

SeqsUpTo(S, n) == UNION {[1..k -> S] : k \in 0..n}
Payloads == SeqsUpTo(Bytes, MaxPayloadLen)
Types == {"stt", "llm", "hello", "system", "error", NoField}
TextMsgs ==
  {TextMsg("invalid", NoField, NoField), TextMsg("nonrecord", NoField, NoField)}
  \cup {TextMsg("record", ty, af) : ty \in Types, af \in {NoField, "opus"}}

\* replies to the hello
Replies ==
  {TextMsg("invalid", NoField, NoField), TextMsg("nonrecord", NoField, NoField)}
  \cup {TextMsg("record", ty, af) : ty \in {"hello", "error"}, af \in {NoField, "OPUS", "wav"}}

\* messages the server sends during a session
SessionMsgs ==
  { TextMsg("record", "stt", NoField),
    TextMsg("record", "hello", "opus"),
    TextMsg("invalid", NoField, NoField),
    TextMsg("nonrecord", NoField, NoField),
    BinMsg(ID3 \o <<223>>),
    BinMsg(<<223, 223>>) }

FileName(base, ext) == <<base, ext>>
MP3Path == FileName("response", "mp3")
UnknownPath == FileName("response_unknown", "bin")
OpusErrorPath == FileName("response_opus_error", "bin")

\* encoder.encode of one captured PCM frame
Encode(pcm) == [codec |-> "opus", pcm |-> pcm]

\* b & 0xE0 for a byte b
BitAndE0(b) == (b \div 32) * 32
\* ------------------------------------------------- handling of one message
\* variant of Sniff without the test for the Ogg container
Sniff_NoOgg(data) ==
  IF Len(data) >= 3
  THEN IF SubSeq(data, 1, 3) = ID3 THEN "mp3"
       ELSE IF Len(data) >= 2 /\ data[1] = 255 /\ BitAndE0(data[2]) = 224 THEN "mp3"
       ELSE NoFormat
  ELSE NoFormat

\* detected_format of a binary payload (NoFormat stands for None)
Sniff(data) ==
  IF Len(data) >= 3
  THEN IF SubSeq(data, 1, 3) = ID3 THEN "mp3"
       ELSE IF Len(data) >= 2 /\ data[1] = 255 /\ BitAndE0(data[2]) = 224 THEN "mp3"
       ELSE IF Len(data) >= 4 /\ SubSeq(data, 1, 4) = OggS THEN "opus"
       ELSE NoFormat
  ELSE NoFormat

\* variant of Classify that trusts the negotiated format over the sniffed one
Classify_TrustNegotiated(data, fmt) ==
  LET detected == Sniff(data)
      mismatch == detected # NoFormat /\ detected # Lower(fmt)
  IN [ detected |-> detected,
       warn |-> mismatch,
       is_mp3 |-> Lower(fmt) = "mp3",
       is_opus |-> Lower(fmt) = "opus" ]

\* variant of Classify in which only a sniffed Ogg container sets is_opus
Classify_SniffOnlyOpus(data, fmt) ==
  LET detected == Sniff(data)
      mismatch == detected # NoFormat /\ detected # Lower(fmt)
  IN [ detected |-> detected,
       warn |-> mismatch,
       is_mp3 |-> IF mismatch THEN detected = "mp3" ELSE Lower(fmt) = "mp3",
       is_opus |-> detected = "opus" ]

\* is_mp3 / is_opus after the reconciliation with the negotiated format
Classify(data, fmt) ==
  LET detected == Sniff(data)
      mismatch == detected # NoFormat /\ detected # Lower(fmt)
  IN [ detected |-> detected,
       warn |-> mismatch,
       is_mp3 |-> IF mismatch THEN detected = "mp3" ELSE Lower(fmt) = "mp3",
       is_opus |-> IF mismatch THEN detected = "opus" ELSE Lower(fmt) = "opus" ]

NoEffect ==
  [ msg |-> NoMsg, fmt |-> NoFormat, raised |-> FALSE, cause |-> "none",
    detected |-> NoFormat, warn |-> FALSE, path |-> "none", decoded |-> FALSE,
    outWrite |-> FALSE, played |-> FALSE, file |-> NoFile, persisted |-> FALSE,
    render |-> "none", prior |-> FALSE ]

\* the handled message l carried a format other than the negotiated one: a
\* binary message whose sniffed format overrode it, or a record with an
\* audio_format of its own
CarriesOtherFormat(l) ==
  \/ l.warn
  \/ l.msg.wire = "text" /\ l.msg.shape = "record"
       /\ l.msg.audio_format \notin {NoField, l.fmt}

\* open(filename, "wb") and write: ioOk says whether it succeeds
Persist(e, filename, ioOk) ==
  [e EXCEPT !.file = filename, !.persisted = ioOk,
            !.raised = ~ioOk, !.cause = IF ioOk THEN "none" ELSE "io"]

\* variant of DecodeAndPlay without the inner try: a failure is raised
DecodeAndPlay_NoCatch(e, dec, ioOk, diag) ==
  LET d == [e EXCEPT !.decoded = TRUE, !.outWrite = (dec # "decode_fail"),
                     !.played = (dec = "ok")]
  IN IF dec = "ok" THEN d ELSE [d EXCEPT !.raised = TRUE, !.cause = "decode"]

\* decoder.decode then output_stream.write, with the except branch that
\* saves the raw chunk under diag; dec is "ok", "decode_fail" or "write_fail"
DecodeAndPlay(e, dec, ioOk, diag) ==
  LET d == [e EXCEPT !.decoded = TRUE, !.outWrite = (dec # "decode_fail"),
                     !.played = (dec = "ok")]
  IN IF dec = "ok" THEN d ELSE Persist(d, diag, ioOk)

HandleBinary(m, fmt, dec, ioOk) ==
  LET c == Classify(m.data, fmt)
      e == [NoEffect EXCEPT !.msg = m, !.fmt = fmt, !.detected = c.detected, !.warn = c.warn]
  IN IF c.is_mp3
     THEN Persist([e EXCEPT !.path = "mp3"], MP3Path, ioOk)
     ELSE IF c.is_opus
     THEN DecodeAndPlay([e EXCEPT !.path = "opus"], dec, ioOk, UnknownPath)
     ELSE IF Lower(fmt) = "opus"
     THEN DecodeAndPlay([e EXCEPT !.path = "fallback_opus"], dec, ioOk, OpusErrorPath)
     ELSE Persist([e EXCEPT !.path = "fallback_file"], FileName("response", Lower(fmt)), ioOk)

\* the branch of the if/elif chain on msg_type
Render(ty) ==
  CASE ty = "stt" -> "stt"
    [] ty = "llm" -> "llm"
    [] ty = "hello" -> "hello"
    [] ty = "system" -> "system"
    [] OTHER -> "unknown"

\* variant of HandleText in which a type outside the four known ones raises
HandleText_RejectUnknown(m, fmt) ==
  LET e == [NoEffect EXCEPT !.msg = m, !.fmt = fmt, !.path = "text"]
  IN CASE m.shape = "invalid" -> [e EXCEPT !.raised = TRUE, !.cause = "json"]
       [] m.shape = "nonrecord" -> [e EXCEPT !.raised = TRUE, !.cause = "notrecord"]
       [] m.type \notin {"stt", "llm", "hello", "system"} ->
            [e EXCEPT !.raised = TRUE, !.cause = "type"]
       [] OTHER -> [e EXCEPT !.render = Render(m.type)]

HandleText(m, fmt) ==
  LET e == [NoEffect EXCEPT !.msg = m, !.fmt = fmt, !.path = "text"]
  IN CASE m.shape = "invalid" -> [e EXCEPT !.raised = TRUE, !.cause = "json"]
       [] m.shape = "nonrecord" -> [e EXCEPT !.raised = TRUE, !.cause = "notrecord"]
       [] OTHER -> [e EXCEPT !.render = Render(m.type)]

\* body of the receive loop for one message
Handle(m, fmt, dec, ioOk) ==
  IF m.wire = "bin" THEN HandleBinary(m, fmt, dec, ioOk) ELSE HandleText(m, fmt)

DecodeOutcomes == {"ok", "decode_fail", "write_fail"}
\* -------------------------------------------------------------------- state
VARIABLES
  mainPc,      \* position of robot_client()
  err,         \* exception propagating out of robot_client(), or "none"
  chan,        \* the WebSocket as the client holds it: "open" or "closed"
  peerClosed,  \* the server has closed the connection
  out,         \* output_stream: "unopened", "started", "stopped", "closed"
  stop,        \* asyncio.Event stop
  inbox,       \* messages in flight from the server
  nmsgs,       \* messages the server has sent after its reply
  helloSent,   \* hello messages sent
  acks,        \* replies consumed by the handshake
  parsed,      \* the reply was parsed as a record
  helloWarn,   \* "Unexpected response type" was printed
  helloReply,  \* the reply the handshake consumed
  negotiated,  \* server_audio_format
  sendPc,      \* position of send_audio()
  now,         \* time.monotonic(), in ms
  start_ts,    \* start_ts of send_audio()
  iterMs,      \* time one iteration of the capture loop takes, in ms
  frames,      \* frames of send_audio()
  idx,         \* position of the for loop over frames
  sent,        \* binary messages transmitted, in order
  recvPc,      \* position of receive_messages()
  recvExit,    \* how receive_messages() ended
  last,        \* effect of the last message the receive loop handled
  td,          \* how often each step of the finally block ran
  timedOut,    \* wait_for raised TimeoutError
  notice       \* the timeout notice was printed

vars ==
  << mainPc, err, chan, peerClosed, out, stop, inbox, nmsgs, helloSent, acks,
     parsed, helloWarn, helloReply, negotiated, sendPc, now, start_ts, iterMs, frames,
     idx, sent,
     recvPc, recvExit, last, td, timedOut, notice >>

mainVars == << mainPc, err, helloSent, acks, parsed, helloWarn, helloReply, negotiated, td, timedOut, notice >>
sendVars == << sendPc, now, start_ts, iterMs, frames, idx, sent >>
recvVars == << recvPc, recvExit, last >>
envVars == << peerClosed, inbox, nmsgs >>

RecvTerminal == recvPc \in {"done", "cancelled"}
SendTerminal == sendPc \in {"done", "failed"}

NoSteps == [setflag |-> 0, close |-> 0, gather |-> 0, outstop |-> 0, outclose |-> 0]

\* state once websockets.connect has returned the connection
Init ==
  /\ mainPc = "setup" /\ err = "none"
  /\ chan = "open" /\ peerClosed = FALSE /\ out = "unopened"
  /\ stop = FALSE
  /\ inbox = <<>> /\ nmsgs = 0
  /\ helloSent = 0 /\ acks = 0 /\ parsed = FALSE /\ helloWarn = FALSE /\ helloReply = NoMsg
  /\ negotiated = NoFormat
  /\ sendPc = "idle" /\ now = 0 /\ start_ts = 0 /\ iterMs = SlowMs /\ frames = <<>> /\ idx = 0 /\ sent = <<>>
  /\ recvPc = "idle" /\ recvExit = "none" /\ last = NoEffect
  /\ td = NoSteps /\ timedOut = FALSE /\ notice = FALSE

\* ------------------------------------------------------------------- server
ServerSend ==
  /\ acks = 1 /\ ~peerClosed /\ chan = "open"
  /\ nmsgs < MaxMsgs /\ Len(inbox) < MaxInbox
  /\ \E m \in SessionMsgs : inbox' = Append(inbox, m)
  /\ nmsgs' = nmsgs + 1
  /\ UNCHANGED << mainVars, sendVars, recvVars, chan, out, stop, peerClosed >>

ServerClose ==
  /\ ~peerClosed /\ chan = "open"
  /\ peerClosed' = TRUE
  /\ UNCHANGED << mainVars, sendVars, recvVars, chan, out, stop, inbox, nmsgs >>

\* ---------------------------------------------------------- robot_client()
\* encoder, decoder and the output stream are created and started
OpenOutput ==
  /\ mainPc = "setup"
  /\ out' = "started"
  /\ mainPc' = "hello"
  /\ UNCHANGED << err, chan, stop, helloSent, acks, parsed, helloWarn, helloReply, negotiated,
                  td, timedOut, notice, sendVars, recvVars, envVars >>

\* await websocket.send(json.dumps(hello))
SendHello ==
  /\ mainPc = "hello"
  /\ IF peerClosed
     THEN /\ err' = "closed" /\ mainPc' = "exit" /\ UNCHANGED helloSent
     ELSE /\ helloSent' = helloSent + 1 /\ mainPc' = "recvHello" /\ UNCHANGED err
  /\ UNCHANGED << chan, out, stop, acks, parsed, helloWarn, helloReply, negotiated,
                  td, timedOut, notice, sendVars, recvVars, envVars >>

\* variant of Negotiate that falls back to "opus", not to the requested format
Negotiate_DefaultOpus(reply) ==
  IF reply.audio_format # NoField THEN reply.audio_format ELSE "opus"

\* hello_response.get("audio_format", hello.get("audio_format", "opus"))
Negotiate(reply) ==
  IF reply.audio_format # NoField THEN reply.audio_format ELSE RequestedFormat

\* variant of RecvHello that goes on to the tasks whatever the reply is
RecvHello_IgnoreParse ==
  /\ mainPc = "recvHello"
  /\ \/ /\ peerClosed
        /\ err' = "closed" /\ mainPc' = "exit"
        /\ UNCHANGED << acks, parsed, helloWarn, helloReply, negotiated >>
     \/ \E reply \in Replies :
          /\ acks' = acks + 1
          /\ helloReply' = reply
          /\ parsed' = (reply.shape = "record")
          /\ helloWarn' = (reply.type # "hello")
          /\ negotiated' = Negotiate(reply)
          /\ mainPc' = "spawn"
          /\ UNCHANGED err
  /\ UNCHANGED << chan, out, stop, helloSent, td, timedOut, notice,
                  sendVars, recvVars, envVars >>

\* variant of RecvHello that aborts on a reply whose type is not "hello"
RecvHello_StrictType ==
  /\ mainPc = "recvHello"
  /\ \/ /\ peerClosed
        /\ err' = "closed" /\ mainPc' = "exit"
        /\ UNCHANGED << acks, parsed, helloWarn, helloReply, negotiated >>
     \/ \E reply \in Replies :
          /\ acks' = acks + 1
          /\ helloReply' = reply
          /\ IF reply.shape = "record" /\ reply.type = "hello"
             THEN /\ parsed' = TRUE
                  /\ helloWarn' = FALSE
                  /\ negotiated' = Negotiate(reply)
                  /\ mainPc' = "spawn"
                  /\ UNCHANGED err
             ELSE /\ err' = "parse" /\ mainPc' = "exit"
                  /\ parsed' = (reply.shape = "record")
                  /\ UNCHANGED << helloWarn, negotiated >>
  /\ UNCHANGED << chan, out, stop, helloSent, td, timedOut, notice,
                  sendVars, recvVars, envVars >>

\* response = await websocket.recv(); json.loads; the reads of the reply
RecvHello ==
  /\ mainPc = "recvHello"
  /\ \/ /\ peerClosed
        /\ err' = "closed" /\ mainPc' = "exit"
        /\ UNCHANGED << acks, parsed, helloWarn, helloReply, negotiated >>
     \/ \E reply \in Replies :
          /\ acks' = acks + 1
          /\ helloReply' = reply
          /\ IF reply.shape = "record"
             THEN /\ parsed' = TRUE
                  /\ helloWarn' = (reply.type # "hello")
                  /\ negotiated' = Negotiate(reply)
                  /\ mainPc' = "spawn"
                  /\ UNCHANGED err
             ELSE /\ err' = "parse" /\ mainPc' = "exit"
                  /\ UNCHANGED << parsed, helloWarn, negotiated >>
  /\ UNCHANGED << chan, out, stop, helloSent, td, timedOut, notice,
                  sendVars, recvVars, envVars >>

\* send_task = create_task(send_audio()); recv_task = create_task(receive_messages())
Spawn ==
  /\ mainPc = "spawn"
  /\ sendPc' = "ready" /\ recvPc' = "ready"
  /\ mainPc' = "awaitSend"
  /\ UNCHANGED << err, chan, out, stop, helloSent, acks, parsed, helloWarn, helloReply, negotiated,
                  td, timedOut, notice, now, start_ts, iterMs, frames, idx, sent,
                  recvExit, last, envVars >>

\* await send_task
AwaitSend ==
  /\ mainPc = "awaitSend" /\ SendTerminal
  /\ IF sendPc = "failed"
     THEN err' = "mic" /\ mainPc' = "exit"
     ELSE mainPc' = "waitFor" /\ UNCHANGED err
  /\ UNCHANGED << chan, out, stop, helloSent, acks, parsed, helloWarn, helloReply, negotiated,
                  td, timedOut, notice, sendVars, recvVars, envVars >>

\* await asyncio.wait_for(recv_task, timeout=300.0), the task finishing first
WaitForDone ==
  /\ mainPc = "waitFor" /\ RecvTerminal
  /\ mainPc' = "td_set"
  /\ UNCHANGED << err, chan, out, stop, helloSent, acks, parsed, helloWarn, helloReply, negotiated,
                  td, timedOut, notice, sendVars, recvVars, envVars >>

\* variant of WaitForTimeout that leaves recv_task running (asyncio.wait
\* in place of asyncio.wait_for)
WaitForTimeout_Abandon ==
  /\ mainPc = "waitFor" /\ ~RecvTerminal
  /\ timedOut' = TRUE /\ notice' = TRUE
  /\ mainPc' = "td_set"
  /\ UNCHANGED << err, chan, out, stop, helloSent, acks, parsed, helloWarn, helloReply, negotiated,
                  td, recvVars, sendVars, envVars >>

\* variant of WaitForTimeout without the except clause: the finally block
\* runs and TimeoutError propagates
WaitForTimeout_Propagate ==
  /\ mainPc = "waitFor" /\ ~RecvTerminal
  /\ recvPc' = "cancelled" /\ recvExit' = "cancelled"
  /\ timedOut' = TRUE /\ err' = "timeout"
  /\ mainPc' = "td_set"
  /\ UNCHANGED << notice, chan, out, stop, helloSent, acks, parsed, helloWarn, helloReply, negotiated,
                  td, last, sendVars, envVars >>

\* the timer finishing first: wait_for cancels recv_task, waits until it has
\* ended, and raises TimeoutError, which the except clause reports
WaitForTimeout ==
  /\ mainPc = "waitFor" /\ ~RecvTerminal
  /\ recvPc' = "cancelled" /\ recvExit' = "cancelled"
  /\ timedOut' = TRUE /\ notice' = TRUE
  /\ mainPc' = "td_set"
  /\ UNCHANGED << err, chan, out, stop, helloSent, acks, parsed, helloWarn, helloReply, negotiated,
                  td, last, sendVars, envVars >>

\* finally: stop.set()
TdSet ==
  /\ mainPc = "td_set"
  /\ stop' = TRUE
  /\ td' = [td EXCEPT !.setflag = @ + 1]
  /\ mainPc' = "td_close"
  /\ UNCHANGED << err, chan, out, helloSent, acks, parsed, helloWarn, helloReply, negotiated,
                  timedOut, notice, sendVars, recvVars, envVars >>

\* await websocket.close(); when it raises, the rest of the block is skipped
TdClose ==
  /\ mainPc = "td_close"
  /\ td' = [td EXCEPT !.close = @ + 1]
  /\ \E ok \in BOOLEAN :
       IF ok
       THEN chan' = "closed" /\ mainPc' = "td_gather" /\ UNCHANGED err
       ELSE (\E c \in {chan, "closed"} : chan' = c) /\ err' = "close" /\ mainPc' = "exit"
  /\ UNCHANGED << out, stop, helloSent, acks, parsed, helloWarn, helloReply, negotiated,
                  timedOut, notice, sendVars, recvVars, envVars >>

\* await asyncio.gather(recv_task, return_exceptions=True)
TdGather ==
  /\ mainPc = "td_gather" /\ RecvTerminal
  /\ td' = [td EXCEPT !.gather = @ + 1]
  /\ mainPc' = "td_outstop"
  /\ UNCHANGED << err, chan, out, stop, helloSent, acks, parsed, helloWarn, helloReply, negotiated,
                  timedOut, notice, sendVars, recvVars, envVars >>

\* output_stream.stop(); when it raises, close() is skipped
TdOutStop ==
  /\ mainPc = "td_outstop"
  /\ td' = [td EXCEPT !.outstop = @ + 1]
  /\ \E ok \in BOOLEAN :
       IF ok
       THEN out' = "stopped" /\ mainPc' = "td_outclose" /\ UNCHANGED err
       ELSE err' = "outstop" /\ mainPc' = "exit" /\ UNCHANGED out
  /\ UNCHANGED << chan, stop, helloSent, acks, parsed, helloWarn, helloReply, negotiated,
                  timedOut, notice, sendVars, recvVars, envVars >>

\* output_stream.close()
TdOutClose ==
  /\ mainPc = "td_outclose"
  /\ td' = [td EXCEPT !.outclose = @ + 1]
  /\ out' = "closed"
  /\ mainPc' = "exit"
  /\ UNCHANGED << err, chan, stop, helloSent, acks, parsed, helloWarn, helloReply, negotiated,
                  timedOut, notice, sendVars, recvVars, envVars >>

\* leaving `async with websockets.connect(uri) as websocket`
CtxExit ==
  /\ mainPc = "exit"
  /\ chan' = "closed"
  /\ mainPc' = "exited"
  /\ UNCHANGED << err, out, stop, helloSent, acks, parsed, helloWarn, helloReply, negotiated,
                  td, timedOut, notice, sendVars, recvVars, envVars >>

\* asyncio.run(robot_client()) returns: tasks still pending are cancelled
RunEnd ==
  /\ mainPc = "exited"
  /\ mainPc' = "done"
  /\ IF recvPc \in {"ready", "recv"}
     THEN recvPc' = "cancelled" /\ recvExit' = "cancelled"
     ELSE UNCHANGED << recvPc, recvExit >>
  /\ UNCHANGED << err, chan, out, stop, helloSent, acks, parsed, helloWarn, helloReply, negotiated,
                  td, timedOut, notice, last, sendVars, envVars >>
\* -------------------------------------------------------------- send_audio()
\* with sd.RawInputStream(...) as mic: start_ts = time.monotonic(); an error
\* opening the device leaves the task
MicOpen ==
  /\ sendPc = "ready"
  /\ \E ok \in BOOLEAN :
       IF ok THEN sendPc' = "capture" /\ start_ts' = now
             ELSE sendPc' = "failed" /\ UNCHANGED start_ts
  /\ UNCHANGED << now, iterMs, frames, idx, sent, mainVars, recvVars, envVars, chan, out, stop >>

\* variant of CaptureCond with <= in place of <
CaptureCond_Inclusive == ~stop /\ (now - start_ts) <= RecordMs

\* condition of the while loop
CaptureCond == ~stop /\ (now - start_ts) < RecordMs

\* variant of Capture that encodes and sends each frame as it is captured
Capture_Streaming ==
  /\ sendPc = "capture"
  /\ IF CaptureCond
     THEN \E ok \in BOOLEAN :
            IF ok
            THEN /\ frames' = Append(frames, Len(frames) + 1)
                 /\ sent' = Append(sent, Encode(Len(frames) + 1))
                 /\ now' = now + iterMs
                 /\ UNCHANGED << sendPc, idx, stop >>
            ELSE /\ stop' = TRUE
                 /\ sendPc' = "done" /\ idx' = Len(frames) + 1
                 /\ UNCHANGED << frames, now, sent >>
     ELSE /\ sendPc' = "done" /\ idx' = Len(frames) + 1
          /\ UNCHANGED << frames, now, stop, sent >>
  /\ UNCHANGED << start_ts, iterMs, mainVars, recvVars, envVars, chan, out >>

\* one evaluation of the while condition and, when it holds, one iteration:
\* mic.read, frames.append, await asyncio.sleep(0); an error in the body sets
\* stop, which ends the loop at the next evaluation without a suspension
Capture ==
  /\ sendPc = "capture"
  /\ IF CaptureCond
     THEN \E ok \in BOOLEAN :
            IF ok
            THEN /\ frames' = Append(frames, Len(frames) + 1)
                 /\ now' = now + iterMs
                 /\ UNCHANGED << sendPc, idx, stop >>
            ELSE /\ stop' = TRUE
                 /\ sendPc' = "flush" /\ idx' = 1
                 /\ UNCHANGED << frames, now >>
     ELSE /\ sendPc' = "flush" /\ idx' = 1
          /\ UNCHANGED << frames, now, stop >>
  /\ UNCHANGED << start_ts, iterMs, sent, mainVars, recvVars, envVars, chan, out >>

\* variant of FrameAt that walks the list from its end
FrameAt_Reversed(fs, i) == fs[Len(fs) - i + 1]

\* the frame the for loop hands to the encoder at position i
FrameAt(fs, i) == fs[i]

\* one iteration of `for pcm_raw in frames`: encode, await websocket.send;
\* ConnectionClosed or another error sets stop and breaks; after the loop the
\* task prints and ends
Flush ==
  /\ sendPc = "flush"
  /\ IF idx > Len(frames)
     THEN sendPc' = "done" /\ UNCHANGED << idx, sent, stop >>
     ELSE \E res \in {"ok", "closed", "error"} :
            /\ res = "ok" => (~peerClosed /\ chan = "open")
            /\ res = "closed" => (peerClosed \/ chan = "closed")
            /\ IF res = "ok"
               THEN /\ sent' = Append(sent, Encode(FrameAt(frames, idx)))
                    /\ idx' = idx + 1
                    /\ UNCHANGED << sendPc, stop >>
               ELSE /\ stop' = TRUE
                    /\ sendPc' = "done"
                    /\ UNCHANGED << idx, sent >>
  /\ UNCHANGED << now, start_ts, iterMs, frames, mainVars, recvVars, envVars, chan, out >>

\* -------------------------------------------------------- receive_messages()
\* first evaluation of `while not stop.is_set()`, then await websocket.recv()
RecvStart ==
  /\ recvPc = "ready"
  /\ IF stop
     THEN recvPc' = "done" /\ recvExit' = "stop"
     ELSE recvPc' = "recv" /\ UNCHANGED recvExit
  /\ UNCHANGED << last, mainVars, sendVars, envVars, chan, out, stop >>

\* variant of AfterHandle in which an exception of the loop body is absorbed
AfterHandle_Absorb(e, flag) ==
  IF flag THEN [stop |-> flag, pc |-> "done", exit |-> "stop"]
  ELSE [stop |-> flag, pc |-> "recv", exit |-> "none"]

\* variant of AfterHandle that does not test the flag before the next receive
AfterHandle_NoRecheck(e, flag) ==
  IF e.raised THEN [stop |-> TRUE, pc |-> "done", exit |-> "error"]
  ELSE [stop |-> flag, pc |-> "recv", exit |-> "none"]

\* what the except clauses of receive_messages() do with the effect e of
\* handling a message: an exception sets stop and ends the task; otherwise
\* the while condition is evaluated again
AfterHandle(e, flag) ==
  IF e.raised THEN [stop |-> TRUE, pc |-> "done", exit |-> "error"]
  ELSE IF flag THEN [stop |-> flag, pc |-> "done", exit |-> "stop"]
  ELSE [stop |-> flag, pc |-> "recv", exit |-> "none"]

\* variant of RecvMessage that adopts the format a message carries: the
\* audio_format of a record, or the sniffed format that overrode the
\* negotiated one
RecvMessage_AdoptFormat ==
  /\ recvPc = "recv" /\ inbox # <<>>
  /\ \E dec \in DecodeOutcomes, ioOk \in BOOLEAN :
       LET m == Head(inbox)
           e == Handle(m, negotiated, dec, ioOk)
           a == AfterHandle(e, stop)
       IN /\ last' = [e EXCEPT !.prior = last.prior \/ CarriesOtherFormat(last)]
          /\ negotiated' =
               IF m.wire = "text" /\ m.shape = "record" /\ m.audio_format # NoField
               THEN m.audio_format
               ELSE IF e.warn THEN e.detected ELSE negotiated
          /\ stop' = a.stop
          /\ recvPc' = a.pc
          /\ recvExit' = a.exit
  /\ inbox' = Tail(inbox)
  /\ UNCHANGED << mainPc, err, helloSent, acks, parsed, helloWarn, helloReply, td,
                  timedOut, notice, sendVars, peerClosed, nmsgs, chan, out >>

\* websocket.recv() returns a message: the body of the loop handles it; prior
\* remembers whether an earlier message carried another format
RecvMessage ==
  /\ recvPc = "recv" /\ inbox # <<>>
  /\ \E dec \in DecodeOutcomes, ioOk \in BOOLEAN :
       LET e == Handle(Head(inbox), negotiated, dec, ioOk)
           a == AfterHandle(e, stop)
       IN /\ last' = [e EXCEPT !.prior = last.prior \/ CarriesOtherFormat(last)]
          /\ stop' = a.stop
          /\ recvPc' = a.pc
          /\ recvExit' = a.exit
  /\ inbox' = Tail(inbox)
  /\ UNCHANGED << mainVars, sendVars, peerClosed, nmsgs, chan, out >>

\* websocket.recv() raises ConnectionClosed
RecvClosed ==
  /\ recvPc = "recv" /\ inbox = <<>>
  /\ peerClosed \/ chan = "closed"
  /\ stop' = TRUE
  /\ recvPc' = "done" /\ recvExit' = "closed"
  /\ UNCHANGED << last, mainVars, sendVars, envVars, chan, out >>

\* ------------------------------------------------------------ specification
Next ==
  \/ ServerSend \/ ServerClose
  \/ OpenOutput \/ SendHello \/ RecvHello \/ Spawn \/ AwaitSend
  \/ WaitForDone \/ WaitForTimeout
  \/ TdSet \/ TdClose \/ TdGather \/ TdOutStop \/ TdOutClose
  \/ CtxExit \/ RunEnd
  \/ MicOpen \/ Capture \/ Flush
  \/ RecvStart \/ RecvMessage \/ RecvClosed

Spec == Init /\ [][Next]_vars

TypeOK ==
  /\ chan \in {"open", "closed"}
  /\ out \in {"unopened", "started", "stopped", "closed"}
  /\ stop \in BOOLEAN
  /\ Len(inbox) <= MaxInbox
  /\ Len(sent) <= Len(frames)
\* --------------------------------------- handling of one message, any input
\* a session in which the handshake is done, both tasks run, the receive
\* task waits in websocket.recv() and one message is in flight
HandledMsgs == {BinMsg(d) : d \in Payloads} \cup TextMsgs

InitHandle ==
  /\ mainPc = "awaitSend" /\ err = "none"
  /\ chan = "open" /\ peerClosed = FALSE /\ out = "started"
  /\ stop = FALSE
  /\ \E m \in HandledMsgs : inbox = <<m>>
  /\ nmsgs = 1
  /\ helloSent = 1 /\ acks = 1 /\ parsed = TRUE /\ helloWarn = FALSE
  /\ negotiated \in Formats
  /\ helloReply = TextMsg("record", "hello", negotiated)
  /\ sendPc = "capture" /\ now = 0 /\ start_ts = 0 /\ iterMs = SlowMs /\ frames = <<>> /\ idx = 0 /\ sent = <<>>
  /\ recvPc = "recv" /\ recvExit = "none" /\ last = NoEffect
  /\ td = NoSteps /\ timedOut = FALSE /\ notice = FALSE

NextHandle == RecvMessage

SpecHandle == InitHandle /\ [][NextHandle]_vars
\* -------------------------------------------- capture at the device's pace
\* a session in which the handshake is done, the two tasks have just been
\* created and every iteration of the capture loop takes one frame period;
\* the server sends nothing and may close the connection
InitFrames ==
  /\ mainPc = "awaitSend" /\ err = "none"
  /\ chan = "open" /\ peerClosed = FALSE /\ out = "started"
  /\ stop = FALSE
  /\ inbox = <<>> /\ nmsgs = 0
  /\ helloSent = 1 /\ acks = 1 /\ parsed = TRUE /\ helloWarn = FALSE
  /\ helloReply = TextMsg("record", "hello", NoField)
  /\ negotiated = Negotiate(helloReply)
  /\ sendPc = "ready" /\ now = 0 /\ start_ts = 0 /\ iterMs = FrameMs /\ frames = <<>>
  /\ idx = 0 /\ sent = <<>>
  /\ recvPc = "ready" /\ recvExit = "none" /\ last = NoEffect
  /\ td = NoSteps /\ timedOut = FALSE /\ notice = FALSE

NextFrames ==
  \/ ServerClose
  \/ MicOpen \/ Capture \/ Flush
  \/ RecvStart \/ RecvClosed
  \/ AwaitSend

SpecFrames == InitFrames /\ [][NextFrames]_vars
\* ------------------------------------------------ the session under fairness
\* the event loop runs every task that can take a step: robot_client() itself,
\* send_audio() and receive_messages(); the 300 s timer of wait_for fires;
\* the server is under no obligation to send or to close
MainNext ==
  \/ OpenOutput \/ SendHello \/ RecvHello \/ Spawn \/ AwaitSend
  \/ WaitForDone \/ WaitForTimeout
  \/ TdSet \/ TdClose \/ TdGather \/ TdOutStop \/ TdOutClose
  \/ CtxExit \/ RunEnd

SendNext == MicOpen \/ Capture \/ Flush

RecvNext == RecvStart \/ RecvMessage \/ RecvClosed

SpecLive ==
  /\ Init /\ [][Next]_vars
  /\ WF_vars(MainNext) /\ WF_vars(SendNext) /\ WF_vars(RecvNext)

\* =================================================================== claims
SessionOver == mainPc = "done"
InTeardown == mainPc \in {"td_set", "td_close", "td_gather", "td_outstop", "td_outclose"}
SendRunning == sendPc \in {"ready", "capture", "flush"}
IsPrefix(p, q) == Len(p) <= Len(q) /\ SubSeq(q, 1, Len(p)) = p

\* C1: once teardown has started, each of its five steps (set the flag,
\* close the channel, await the receive task, stop the output device, close
\* the output device) has run exactly once when the session is over, also
\* when closing the channel raised.
C1_EveryStepOnce ==
  (SessionOver /\ td.setflag >= 1) =>
     /\ td.setflag = 1 /\ td.close = 1 /\ td.gather = 1
     /\ td.outstop = 1 /\ td.outclose = 1

\* C2: when a session in which the channel and the output device were
\* opened is over - after a normal run, a timeout, a handshake reply that
\* cannot be parsed or an error that escaped the capture-and-send task - the
\* channel is closed and the output device is stopped and closed.
C2_Released ==
  (SessionOver /\ out # "unopened" /\ err \in {"none", "parse", "mic"}) =>
     (chan = "closed" /\ out = "closed")

\* C3: while the cancellation flag is set, no step transmits an audio frame.
C3_StopsAtFlag == [][stop => sent' = sent]_vars

\* C4 (as stated): after the timer has won the race, the receive task has
\* ended only by observing the flag or the closure of the channel itself.
C4_Cooperative == (timedOut /\ RecvTerminal) => recvExit \in {"stop", "closed"}

\* C4 (amended): when the timer wins the race against a pending receive
\* task, the timeout itself ends the task: it is cancelled at its suspension
\* point and is terminal before teardown starts, so the teardown step that
\* awaits it finds it ended.
C4_TimeoutCancels ==
  /\ timedOut => (recvPc = "cancelled" /\ recvExit = "cancelled")
  /\ (InTeardown \/ td.gather >= 1) => RecvTerminal

C4_Witness == timedOut /\ td.gather = 1 /\ recvExit = "cancelled"

\* C5: at most one hello is sent and at most one reply is consumed by the
\* handshake, and once the capture-and-send task exists, a frame has been
\* captured or a binary message has been sent, exactly one hello has been
\* sent and exactly one reply has been received and parsed.
C5_HandshakeFirst ==
  /\ helloSent <= 1 /\ acks <= 1
  /\ (sendPc # "idle" \/ recvPc # "idle" \/ frames # <<>> \/ sent # <<>>) =>
        (helloSent = 1 /\ acks = 1 /\ parsed)

C5_Witness == helloSent = 1 /\ acks = 1 /\ Len(frames) >= 2 /\ Len(sent) >= 1

\* C6 (as stated): the receive task never leaves its loop because of an
\* error raised while a message was handled.
C6_OnlyTransport == recvExit # "error"

\* C6 (amended): the receive task sets the flag and leaves its loop when the
\* channel is closed and whenever handling a message raises: a text that is
\* not JSON, a text that is not a record and a failed write of a chunk all
\* end the loop; a failed Opus decode or playback whose raw chunk is saved,
\* and a record of any type, are absorbed.
C6_ErrorsEndLoop ==
  /\ last.raised <=>
       \/ last.msg.shape \in {"invalid", "nonrecord"}
       \/ (last.file # NoFile /\ ~last.persisted)
  /\ last.raised => (stop /\ recvPc = "done" /\ recvExit = "error")
  /\ recvExit = "error" => last.raised
  /\ recvExit = "closed" => stop

C6_Witness ==
  /\ last.msg.shape = "invalid" /\ recvExit = "error" /\ stop
  /\ nmsgs = 2 /\ Len(inbox) = 1

\* C7: after a timeout the notice has been printed, no TimeoutError
\* propagates, teardown is under way or over and the session ends with the
\* channel closed; and neither teardown nor any closing of the channel by
\* the client happens while the capture-and-send task runs.
C7_TimeoutThenTeardown ==
  /\ timedOut =>
       /\ notice /\ err # "timeout"
       /\ InTeardown \/ mainPc \in {"exit", "exited", "done"}
       /\ mainPc # "td_set" => td.setflag = 1
  /\ (timedOut /\ SessionOver) => (chan = "closed" /\ td.close = 1)
  /\ (InTeardown \/ td.setflag >= 1 \/ chan = "closed") => ~SendRunning

C7_Witness == timedOut /\ SessionOver /\ chan = "closed" /\ err = "none" /\ out = "closed"

\* C8: the binary messages transmitted are the encodings of a prefix of the
\* captured frames, in capture order, one message per frame; when the task
\* has ended and the flag is not set, every captured frame was transmitted.
C8_SentIsPrefix ==
  /\ IsPrefix(sent, [i \in 1..Len(frames) |-> Encode(frames[i])])
  /\ \A i, j \in 1..Len(frames) : i # j => frames[i] # frames[j]
  /\ (sendPc = "done" /\ ~stop) => Len(sent) = Len(frames)

C8_Witness == sendPc = "done" /\ ~stop /\ Len(sent) = 3

FrameSync(d) == Len(d) >= 2 /\ d[1] = 255 /\ d[2] >= 224
StartsWith(d, p) == Len(d) >= Len(p) /\ SubSeq(d, 1, Len(p)) = p

\* C9: a binary payload of two or more bytes whose first byte is 0xFF and
\* whose second byte has its top three bits set is handled as MP3, whatever
\* the negotiated encoding.
C9_FrameSyncIsMP3 ==
  (last.msg.wire = "bin" /\ FrameSync(last.msg.data)) => last.path = "mp3"

\* C10: a binary payload that begins with the bytes ID3 is handled as MP3
\* whatever the negotiated encoding: it is written to response.mp3 and
\* neither the decoder nor the output device is used.
C10_ID3IsMP3 ==
  (last.msg.wire = "bin" /\ StartsWith(last.msg.data, ID3)) =>
     /\ last.path = "mp3" /\ last.file = MP3Path
     /\ last.persisted \/ last.cause = "io"
     /\ ~last.decoded /\ ~last.outWrite /\ ~last.played

C10_Witness ==
  /\ last.msg.wire = "bin" /\ StartsWith(last.msg.data, ID3) /\ Len(last.msg.data) = 4
  /\ last.fmt = "OPUS" /\ last.persisted /\ last.warn
\* C11: a binary payload that begins with the bytes OggS is handled as Opus
\* whatever the negotiated encoding: it goes to the decoder and nothing is
\* written under response.mp3.
C11_OggIsOpus ==
  (last.msg.wire = "bin" /\ StartsWith(last.msg.data, OggS)) =>
     /\ last.path = "opus" /\ last.decoded
     /\ last.file # MP3Path
     /\ last.played \/ last.file = UnknownPath

C11_Witness ==
  /\ last.msg.wire = "bin" /\ StartsWith(last.msg.data, OggS)
  /\ last.fmt = "Mp3" /\ last.played /\ last.warn

\* the classification the byte signatures of a payload give: MP3 for an ID3
\* tag or a frame sync, Opus for an Ogg container, none otherwise
Signature(d) ==
  IF StartsWith(d, ID3) \/ FrameSync(d) THEN "mp3"
  ELSE IF StartsWith(d, OggS) THEN "opus"
  ELSE NoFormat

\* C12: for a binary message the mismatch warning is printed exactly when
\* its byte signature gives a classification that differs from the
\* negotiated encoding in lower case, and the message is then handled by
\* the classification of the signature.
C12_WarnIffMismatch ==
  last.msg.wire = "bin" =>
    LET sig == Signature(last.msg.data)
    IN /\ last.warn <=> (sig # NoFormat /\ sig # Lower(last.fmt))
       /\ last.warn => last.path = sig

\* C13: a binary payload without any byte signature is handled by the
\* negotiated encoding: Opus is decoded and played, and a failure saves the
\* chunk to response_unknown.bin, the file of every failed Opus decode; MP3
\* is written to response.mp3; any other encoding is written to
\* response.<encoding in lower case> without a decode.
C13_FallbackToNegotiated ==
  /\ (last.decoded /\ ~last.played) => last.file = UnknownPath
  /\ (last.msg.wire = "bin" /\ Signature(last.msg.data) = NoFormat) =>
       /\ ~last.warn
       /\ Lower(last.fmt) = "opus" =>
            (last.decoded /\ (last.played \/ last.file = UnknownPath))
       /\ Lower(last.fmt) = "mp3" => (last.file = MP3Path /\ ~last.decoded)
       /\ Lower(last.fmt) \notin {"opus", "mp3"} =>
            (last.file = <<"response", Lower(last.fmt)>> /\ ~last.decoded /\ ~last.outWrite)

C13_Witness ==
  /\ last.msg.wire = "bin" /\ Signature(last.msg.data) = NoFormat
  /\ Len(last.msg.data) = 4
  /\ last.fmt = "OPUS" /\ last.decoded /\ ~last.outWrite /\ last.persisted
\* C14: when the reply to the hello is a record without audio_format, the
\* negotiated encoding is the one the client asked for in its hello; when
\* the field is there, the negotiated encoding is its value.
C14_FallbackLaw ==
  helloReply.shape = "record" =>
     /\ helloReply.audio_format = NoField => negotiated = RequestedFormat
     /\ helloReply.audio_format # NoField => negotiated = helloReply.audio_format

C14_Witness ==
  /\ helloReply.shape = "record" /\ helloReply.audio_format = NoField
  /\ negotiated = "mp3" /\ sendPc = "capture"

\* C15 (as stated): whenever the decoder rejects a chunk, the chunk is saved,
\* the flag stays clear and the receive task goes on to the next receive.
C15_DecodeFailureNeverFatal ==
  (last.decoded /\ ~last.outWrite) =>
     (last.persisted /\ ~last.raised /\ ~stop /\ recvPc = "recv")

\* C15 (amended): when the decoder rejects a chunk, nothing is written to
\* the output device and the raw chunk is written to a diagnostic file; if
\* that write succeeds the flag stays clear and the receive task goes on to
\* the next receive, and if it fails the flag is set and the loop ends.
C15_DecodeFailureAbsorbed ==
  (last.decoded /\ ~last.outWrite) =>
     /\ ~last.played
     /\ last.file \in {UnknownPath, OpusErrorPath}
     /\ IF last.persisted
        THEN ~last.raised /\ ~stop /\ recvPc = "recv" /\ recvExit = "none"
        ELSE last.raised /\ stop /\ recvPc = "done" /\ recvExit = "error"

C15_Witness ==
  /\ last.decoded /\ ~last.outWrite /\ last.persisted
  /\ last.detected = "opus" /\ recvPc = "recv" /\ ~stop

\* C16: a textual message that is a record is rendered by its type - stt,
\* llm, hello and system each in their own way, any other or missing type
\* as unknown - and the flag stays clear and the receive task goes on to
\* the next receive.
C16_RecordsAreRendered ==
  (last.msg.wire = "text" /\ last.msg.shape = "record") =>
     /\ last.render =
          (IF last.msg.type \in {"stt", "llm", "hello", "system"}
           THEN last.msg.type ELSE "unknown")
     /\ ~last.raised /\ ~stop /\ recvPc = "recv" /\ recvExit = "none"

C16_Witness ==
  /\ last.msg.wire = "text" /\ last.msg.shape = "record"
  /\ last.msg.type = "error" /\ last.render = "unknown" /\ recvPc = "recv"

\* C17: after a reply that is not a record the session is aborted with no
\* task started, no frame captured and no binary message sent; after a reply
\* that is a record the warning is printed exactly when its type is not
\* hello, and in both cases the two tasks are started.
C17_HandshakeFailure ==
  /\ helloReply.shape \in {"invalid", "nonrecord"} =>
       /\ err = "parse" /\ mainPc \in {"exit", "exited", "done"}
       /\ sendPc = "idle" /\ recvPc = "idle" /\ frames = <<>> /\ sent = <<>>
  /\ helloReply.shape = "record" =>
       /\ parsed /\ err # "parse"
       /\ helloWarn <=> (helloReply.type # "hello")
       /\ mainPc = "spawn" \/ (sendPc # "idle" /\ recvPc # "idle")

C17_Witness ==
  /\ helloReply.shape = "record" /\ helloReply.type = "error" /\ helloWarn
  /\ Len(frames) >= 2 /\ Len(sent) >= 1

\* C18: nothing is transmitted while the capture loop runs, only the flush
\* loop transmits, and no frame is captured once one has been transmitted.
C18_CaptureBeforeSend ==
  /\ [](sendPc \in {"idle", "ready", "capture"} => sent = <<>>)
  /\ [][sent' # sent => (sendPc = "flush" /\ frames' = frames)]_vars
  /\ [][sent # <<>> => frames' = frames]_vars

C18_Witness == sendPc = "flush" /\ Len(frames) >= 2 /\ Len(sent) = 1

\* C19: when every iteration of the capture loop takes one frame period of
\* 20 ms and the task ends with the flag clear, 250 frames were captured and
\* their 250 encodings were transmitted in capture order.
C19_250Frames ==
  (iterMs = 20 /\ sendPc = "done" /\ ~stop) =>
     /\ Len(frames) = 250 /\ Len(sent) = 250
     /\ \A i \in 1..250 : frames[i] = i /\ sent[i] = Encode(frames[i])

C19_Witness == iterMs = 20 /\ sendPc = "done" /\ ~stop /\ Len(sent) = 250

\* C20 (as stated): with the flag set, the receive task waiting in recv()
\* leaves it only by handling a message or by the closure of the channel.
C20_LeavesOnMessageOrClose ==
  [][(stop /\ recvPc = "recv" /\ recvPc' # "recv") =>
        (Len(inbox') < Len(inbox) \/ recvExit' = "closed")]_vars

\* C20 (amended): the flag is tested only before a receive starts: with the
\* flag set, the receive task waiting in recv() stays there until a message
\* arrives, which it handles before it leaves the loop without a further
\* receive, or the channel is closed, or the 300-second timeout cancels it.
C20_FlagTestedBeforeRecv ==
  [][(stop /\ recvPc = "recv") =>
        \/ recvPc' = "recv" /\ last' = last /\ Len(inbox') >= Len(inbox)
        \/ recvPc' = "done" /\ inbox # <<>> /\ inbox' = Tail(inbox)
             /\ last'.msg = Head(inbox)
        \/ recvPc' = "done" /\ recvExit' = "closed" /\ inbox = <<>>
             /\ (peerClosed \/ chan = "closed") /\ last' = last
        \/ recvPc' = "cancelled" /\ timedOut' /\ last' = last /\ inbox' = inbox]_vars

C20_Witness ==
  /\ stop /\ recvPc = "done" /\ recvExit = "stop"
  /\ last.msg # NoMsg /\ ~last.raised /\ Len(inbox) = 1
\* C21: once the handshake has set the negotiated encoding no step changes
\* it; every message is handled under it, also after a late hello with
\* another audio_format or a sniffed override, and a later binary message
\* without a signature is handled by the negotiated encoding of the
\* handshake alone.
C21_NegotiatedIsFixed ==
  /\ [][parsed => negotiated' = negotiated]_vars
  /\ [](last.msg # NoMsg =>
          /\ last.fmt = negotiated
          /\ helloReply.audio_format # NoField => last.fmt = helloReply.audio_format
          /\ helloReply.audio_format = NoField => last.fmt = RequestedFormat)
  /\ []((last.msg.wire = "bin" /\ Signature(last.msg.data) = NoFormat) =>
          /\ ~last.warn
          /\ last.path = "mp3" <=> Lower(negotiated) = "mp3"
          /\ last.path = "opus" <=> Lower(negotiated) = "opus")

C21_Witness ==
  /\ last.prior /\ last.msg.wire = "bin" /\ Signature(last.msg.data) = NoFormat
  /\ negotiated = "wav" /\ last.path = "fallback_file" /\ last.persisted
\* C22: once the handshake has completed and the capture-and-send task has
\* been started, the session eventually reaches completed teardown - flag
\* set, channel closed, receive task terminal, output device closed - in
\* every run in which the channel close returns.
TeardownComplete == stop /\ chan = "closed" /\ RecvTerminal /\ out = "closed"

C22_AlwaysTearsDown ==
  (parsed /\ sendPc # "idle") ~> (TeardownComplete \/ err = "close")
====
